---- MODULE Spec2Model ----
(***************************************************************************)
(* Model of lance-graph's source_catalog.rs: the GraphSourceCatalog trait, *)
(* its in-memory implementation InMemoryCatalog (two HashMaps from names   *)
(* to Arc<dyn TableSource>), and the fixed-schema SimpleTableSource.       *)
(***************************************************************************)
EXTENDS Integers, Sequences, FiniteSets, TLC

(* ------------------------------ bounds --------------------------------- *)
\* number of SimpleTableSource objects (Arc allocations) in the heap
MaxHandles == 2
\* longest schema (number of columns) given to SimpleTableSource::new
MaxCols == 2
\* number of with_node_source / with_relationship_source calls in a chain
MaxRegs == 3
\* number of planner threads sharing one constructed catalog
NumThreads == 2

(* ------------------------------ values --------------------------------- *)
\* Strings are sequences of characters.  The keys contain the empty string,
\* two strings that differ in case only, and a string with trailing white
\* space of which another key is both the trimmed form and a proper prefix.
Keys == { <<>>, <<"a">>, <<"A">>, <<"a", " ">> }

\* column names of a Schema; a Schema is the ordered list of its columns
Columns == {"id", "name"}

Schemas == UNION { [1..n -> Columns] : n \in 0..MaxCols }

Handles == 1..MaxHandles

Threads == 1..NumThreads

\* Option<T>
None == [some |-> FALSE]

Some(v) == [some |-> TRUE, val |-> v]

VARIABLES
    sources,       \* heap of SimpleTableSource objects: handle -> [schema]
    built,         \* history: how each heap object was constructed
    firstSchema,   \* history: result of the first schema() call per object
    lastSchema,    \* history: result of the latest schema() call per object
    strong,        \* Arc strong count of each heap object
    node_sources,  \* InMemoryCatalog.node_sources
    rel_sources,   \* InMemoryCatalog.rel_sources
    registered,    \* history: per namespace and key, the handles registered
    nregs,         \* history: number of registration calls made
    atReg,         \* history: what every call returned on the catalog as
                   \* the latest registration (or the constructor) left it
    ret,           \* the latest call on the catalog and what it returned
    pc,            \* per thread: position inside a resolution call
    targ,          \* per thread: the call being made
    found,         \* per thread: the Option<&Arc> read from the map
    tres           \* per thread: the value returned to the caller

vars == <<sources, built, firstSchema, lastSchema, strong, node_sources,
          rel_sources, registered, nregs, atReg, ret, pc, targ, found, tres>>

(* --------------------------- SimpleTableSource ------------------------- *)
\* Schema::empty()
Schema_empty == <<>>

SimpleTableSource_new(schema) == [schema |-> schema]

SimpleTableSource_empty == [schema |-> Schema_empty]

\* TableSource::schema for SimpleTableSource: a clone of the SchemaRef
schema(self) == self.schema

(* -------------------------------- String ------------------------------- *)
IntoStringTrim(label) ==
    IF Len(label) > 0 /\ label[Len(label)] = " "
    THEN SubSeq(label, 1, Len(label) - 1)
    ELSE label

\* label.into(): an owned String holding the same characters
IntoString(label) == [i \in 1..Len(label) |-> label[i]]

KeyEqIgnoreCase(a, b) ==
    LET lower(c) == IF c = "A" THEN "a" ELSE c
    IN  /\ Len(a) = Len(b)
        /\ \A i \in 1..Len(a) : lower(a[i]) = lower(b[i])

\* String equality as the HashMap uses it: same length, same characters
KeyEq(a, b) ==
    /\ Len(a) = Len(b)
    /\ \A i \in 1..Len(a) : a[i] = b[i]

(* -------------------------------- HashMap ------------------------------ *)
\* A HashMap is the set of its entries [key, val].
HashMap_new == {}

HashMapGetOrEmpty(m, k) ==
    IF \E e \in m : KeyEq(e.key, k)
    THEN Some((CHOOSE e \in m : KeyEq(e.key, k)).val)
    ELSE Some(1)

\* HashMap::get(k)
HashMapGet(m, k) ==
    IF \E e \in m : KeyEq(e.key, k)
    THEN Some((CHOOSE e \in m : KeyEq(e.key, k)).val)
    ELSE None

HashMapInsertKeepFirst(m, k, v) ==
    IF \E e \in m : KeyEq(e.key, k) THEN m ELSE m \cup {[key |-> k, val |-> v]}

HashMapInsertClear(m, k, v) == {[key |-> k, val |-> v]}

\* HashMap::insert(k, v): the entry of an equal key is replaced
HashMapInsert(m, k, v) ==
    {e \in m : ~KeyEq(e.key, k)} \cup {[key |-> k, val |-> v]}

(* ----------------------------- InMemoryCatalog ------------------------- *)
InMemoryCatalog_new ==
    [node_sources |-> HashMap_new, rel_sources |-> HashMap_new]

InMemoryCatalog_default == InMemoryCatalog_new

with_node_source(self, label, source) ==
    [self EXCEPT !.node_sources = HashMapInsert(@, IntoString(label), source)]

with_relationship_source_shared(self, rel_type, source) ==
    [self EXCEPT !.node_sources = HashMapInsert(@, IntoString(rel_type), source),
                 !.rel_sources = HashMapInsert(@, IntoString(rel_type), source)]

with_relationship_source(self, rel_type, source) ==
    [self EXCEPT !.rel_sources = HashMapInsert(@, IntoString(rel_type), source)]

\* the Option<&Arc> the lookup of node_source / relationship_source yields
node_source(self, label) == HashMapGet(self.node_sources, label)

relationship_source(self, rel_type) == HashMapGet(self.rel_sources, rel_type)

\* GraphSourceCatalog's provided methods
default_get_relationship_mapping(self, rel_type) == None

default_get_node_mapping_fallback(self, label) ==
    IF node_source(self, label).some THEN Some([table |-> label]) ELSE None

default_get_node_mapping(self, label) == None

\* impl GraphSourceCatalog for InMemoryCatalog defines these methods only
Overridden == {"node_source", "relationship_source"}

Ops == {"node_source", "relationship_source",
        "get_node_mapping", "get_relationship_mapping"}

\* method dispatch on an InMemoryCatalog behind the trait
Call(self, op, name) ==
    CASE op = "node_source" -> node_source(self, name)
      [] op = "relationship_source" -> relationship_source(self, name)
      [] op = "get_node_mapping" -> default_get_node_mapping(self, name)
      [] op = "get_relationship_mapping" ->
             default_get_relationship_mapping(self, name)

\* the catalog held in the state
Self == [node_sources |-> node_sources, rel_sources |-> rel_sources]

\* what every call on catalog self returns
AllResults(self) == [op \in Ops |-> [k \in Keys |-> Call(self, op, k)]]

(* ------------------------------- Arc ----------------------------------- *)
\* Arc::clone: one more strong reference to object h
ArcClone(cnt, h) == [cnt EXCEPT ![h] = @ + 1]

\* dropping an Option<Arc>: one strong reference fewer when it is Some
DropOption(cnt, opt) ==
    IF opt.some THEN [cnt EXCEPT ![opt.val] = @ - 1] ELSE cnt

\* Option<&Arc>::cloned()
Cloned(cnt, opt) == IF opt.some THEN ArcClone(cnt, opt.val) ELSE cnt

(* --------------------------- history helpers --------------------------- *)
Namespaces == {"node", "rel"}

NoCall == [op |-> "none", key |-> <<>>, val |-> None]

Last(s) == s[Len(s)]

(* ------------------- the test fixtures of the catalog ------------------ *)
Min(a, b) == IF a < b THEN a ELSE b

\* handle 1 is SimpleTableSource::empty(); handle i > 1 is
\* SimpleTableSource::new of a schema of Min(i, MaxCols) columns
FixtureSchema(i) ==
    [j \in 1..Min(i, MaxCols) |-> IF j % 2 = 1 THEN "id" ELSE "name"]

FixtureBuilt ==
    [h \in Handles |-> IF h = 1 THEN [ctor |-> "empty", arg |-> Schema_empty]
                       ELSE [ctor |-> "new", arg |-> FixtureSchema(h)]]

Fixtures ==
    [h \in Handles |-> IF h = 1 THEN SimpleTableSource_empty
                       ELSE SimpleTableSource_new(FixtureSchema(h))]

IdleThreads ==
    /\ pc = [t \in Threads |-> "idle"]
    /\ targ = [t \in Threads |-> NoCall]
    /\ found = [t \in Threads |-> None]
    /\ tres = [t \in Threads |-> None]

(* ---------------- building and querying one catalog -------------------- *)
\* InMemoryCatalog::new() or ::default(), the fixtures held by the caller
Init ==
    /\ sources = Fixtures
    /\ built = FixtureBuilt
    /\ firstSchema = [h \in Handles |-> None]
    /\ lastSchema = [h \in Handles |-> None]
    /\ strong = [h \in Handles |-> 1]
    /\ \E c \in {InMemoryCatalog_new, InMemoryCatalog_default} :
          /\ node_sources = c.node_sources
          /\ rel_sources = c.rel_sources
    /\ registered = [ns \in Namespaces |-> [k \in Keys |-> <<>>]]
    /\ nregs = 0
    /\ atReg = AllResults(InMemoryCatalog_new)
    /\ ret = NoCall
    /\ IdleThreads

ThreadVars == <<pc, targ, found, tres>>

SourceVars == <<sources, built, firstSchema, lastSchema>>

\* the Arc the caller still holds from its latest resolution call
RetHeld == IF ret.op \in Overridden THEN ret.val ELSE None

\* catalog.with_node_source(label, Arc::clone(fixture h)): the caller drops
\* the value of its previous call, the clone moves into the map and the
\* value insert() returns is dropped
WithNodeSource(label, h) ==
    /\ nregs < MaxRegs
    /\ LET old == HashMapGet(node_sources, IntoString(label))
           new == with_node_source(Self, label, h)
       IN  /\ node_sources' = new.node_sources
           /\ rel_sources' = new.rel_sources
           /\ strong' = DropOption(DropOption(ArcClone(strong, h), old), RetHeld)
           /\ atReg' = AllResults(new)
    /\ ret' = NoCall
    /\ registered' = [registered EXCEPT !["node"][label] = Append(@, h)]
    /\ nregs' = nregs + 1
    /\ UNCHANGED <<SourceVars, ThreadVars>>

WithRelationshipSource(rel_type, h) ==
    /\ nregs < MaxRegs
    /\ LET old == HashMapGet(rel_sources, IntoString(rel_type))
           new == with_relationship_source(Self, rel_type, h)
       IN  /\ node_sources' = new.node_sources
           /\ rel_sources' = new.rel_sources
           /\ strong' = DropOption(DropOption(ArcClone(strong, h), old), RetHeld)
           /\ atReg' = AllResults(new)
    /\ ret' = NoCall
    /\ registered' = [registered EXCEPT !["rel"][rel_type] = Append(@, h)]
    /\ nregs' = nregs + 1
    /\ UNCHANGED <<SourceVars, ThreadVars>>

\* a call through &self: the caller drops the value of its previous call
\* and keeps the returned one
Returned(op, name, val) ==
    /\ ret' = [op |-> op, key |-> name, val |-> val]
    /\ strong' = DropOption(IF op \in Overridden THEN Cloned(strong, val)
                            ELSE strong, RetHeld)
    /\ UNCHANGED <<registered, nregs, atReg, SourceVars, ThreadVars>>

NodeSourceTake(label) ==
    /\ Returned("node_source", label, node_source(Self, label))
    /\ node_sources' = {e \in node_sources : ~KeyEq(e.key, label)}
    /\ UNCHANGED rel_sources

NodeSource(label) ==
    /\ Returned("node_source", label, node_source(Self, label))
    /\ UNCHANGED <<node_sources, rel_sources>>

RelationshipSource(rel_type) ==
    /\ Returned("relationship_source", rel_type,
                relationship_source(Self, rel_type))
    /\ UNCHANGED <<node_sources, rel_sources>>

GetNodeMapping(label) ==
    /\ Returned("get_node_mapping", label, default_get_node_mapping(Self, label))
    /\ UNCHANGED <<node_sources, rel_sources>>

GetRelationshipMapping(rel_type) ==
    /\ Returned("get_relationship_mapping", rel_type,
                default_get_relationship_mapping(Self, rel_type))
    /\ UNCHANGED <<node_sources, rel_sources>>

Next ==
    \/ \E label \in Keys, h \in Handles : WithNodeSource(label, h)
    \/ \E rel_type \in Keys, h \in Handles : WithRelationshipSource(rel_type, h)
    \/ \E label \in Keys : NodeSource(label)
    \/ \E rel_type \in Keys : RelationshipSource(rel_type)
    \/ \E label \in Keys : GetNodeMapping(label)
    \/ \E rel_type \in Keys : GetRelationshipMapping(rel_type)

Spec == Init /\ [][Next]_vars

(* --------------------- SimpleTableSource on its own -------------------- *)
CatalogUntouched ==
    UNCHANGED <<node_sources, rel_sources, registered, nregs, atReg, ret, ThreadVars>>

InitSource ==
    /\ sources = <<>>
    /\ built = <<>>
    /\ firstSchema = <<>>
    /\ lastSchema = <<>>
    /\ strong = <<>>
    /\ node_sources = InMemoryCatalog_new.node_sources
    /\ rel_sources = InMemoryCatalog_new.rel_sources
    /\ registered = [ns \in Namespaces |-> [k \in Keys |-> <<>>]]
    /\ nregs = 0
    /\ atReg = AllResults(InMemoryCatalog_new)
    /\ ret = NoCall
    /\ IdleThreads

\* Arc::new(object): a new heap object with one strong reference
Allocate(object, how) ==
    /\ Len(sources) < MaxHandles
    /\ sources' = Append(sources, object)
    /\ built' = Append(built, how)
    /\ firstSchema' = Append(firstSchema, None)
    /\ lastSchema' = Append(lastSchema, None)
    /\ strong' = Append(strong, 1)
    /\ CatalogUntouched

New(s) == Allocate(SimpleTableSource_new(s), [ctor |-> "new", arg |-> s])

Empty == Allocate(SimpleTableSource_empty, [ctor |-> "empty", arg |-> Schema_empty])

SchemaCallTake(h) ==
    /\ h \in DOMAIN sources
    /\ lastSchema' = [lastSchema EXCEPT ![h] = Some(schema(sources[h]))]
    /\ firstSchema' = IF firstSchema[h].some THEN firstSchema
                      ELSE [firstSchema EXCEPT ![h] = Some(schema(sources[h]))]
    /\ sources' = [sources EXCEPT ![h] = [schema |-> Schema_empty]]
    /\ UNCHANGED <<built, strong>>
    /\ CatalogUntouched

\* source.schema() through &self
SchemaCall(h) ==
    /\ h \in DOMAIN sources
    /\ lastSchema' = [lastSchema EXCEPT ![h] = Some(schema(sources[h]))]
    /\ firstSchema' = IF firstSchema[h].some THEN firstSchema
                      ELSE [firstSchema EXCEPT ![h] = Some(schema(sources[h]))]
    /\ UNCHANGED <<sources, built, strong>>
    /\ CatalogUntouched

NextSource ==
    \/ \E s \in Schemas : New(s)
    \/ Empty
    \/ \E h \in Handles : SchemaCall(h)

SpecSource == InitSource /\ [][NextSource]_vars

(* ------------ planner threads sharing a constructed catalog ------------ *)
Reg(ns, k, h) == [ns |-> ns, key |-> k, source |-> h]

\* builder chains that construct the shared catalog: none; one name in each
\* namespace; an overwritten label whose name is also a relationship type
\* sharing its handle; the empty string and a padded name sharing a handle
BuildScripts ==
    { <<>>,
      <<Reg("node", <<"a">>, 2), Reg("rel", <<"A">>, 1)>>,
      <<Reg("node", <<"a">>, 1), Reg("node", <<"a">>, 2), Reg("rel", <<"a">>, 2)>>,
      <<Reg("node", <<>>, 1), Reg("node", <<"a", " ">>, 1)>> }

RECURSIVE Build(_)
Build(script) ==
    IF script = <<>> THEN InMemoryCatalog_new
    ELSE LET r == Last(script)
             c == Build(SubSeq(script, 1, Len(script) - 1))
         IN  IF r.ns = "node" THEN with_node_source(c, r.key, r.source)
             ELSE with_relationship_source(c, r.key, r.source)

\* the handles registered under (ns, k) by a chain, in order
RECURSIVE ScriptHistory(_, _, _)
ScriptHistory(script, ns, k) ==
    IF script = <<>> THEN <<>>
    ELSE LET r == Last(script)
             rest == ScriptHistory(SubSeq(script, 1, Len(script) - 1), ns, k)
         IN  IF r.ns = ns /\ r.key = k THEN Append(rest, r.source) ELSE rest

\* strong references the two maps hold on object h
MapRefs(nodes, rels, h) ==
    Cardinality({e \in nodes : e.val = h}) + Cardinality({e \in rels : e.val = h})

InitConc ==
    /\ sources = Fixtures
    /\ built = FixtureBuilt
    /\ firstSchema = [h \in Handles |-> None]
    /\ lastSchema = [h \in Handles |-> None]
    /\ \E script \in BuildScripts :
          LET c == Build(script)
          IN  /\ node_sources = c.node_sources
              /\ rel_sources = c.rel_sources
              /\ registered = [ns \in Namespaces |->
                                 [k \in Keys |-> ScriptHistory(script, ns, k)]]
              /\ nregs = Len(script)
              /\ atReg = AllResults(c)
              /\ strong = [h \in Handles |->
                             1 + MapRefs(c.node_sources, c.rel_sources, h)]
    /\ ret = NoCall
    /\ IdleThreads

SharedUntouched == UNCHANGED <<registered, nregs, atReg, ret, SourceVars>>

\* thread t drops the value of its previous call and calls
\* catalog.node_source(name) or catalog.relationship_source(name)
ThreadCall(t, op, name) ==
    /\ pc[t] = "idle"
    /\ pc' = [pc EXCEPT ![t] = "get"]
    /\ targ' = [targ EXCEPT ![t] = [op |-> op, key |-> name, val |-> None]]
    /\ strong' = DropOption(strong, tres[t])
    /\ tres' = [tres EXCEPT ![t] = None]
    /\ UNCHANGED <<found, node_sources, rel_sources>>
    /\ SharedUntouched

ThreadGetTake(t) ==
    /\ pc[t] = "get"
    /\ found' = [found EXCEPT ![t] = Call(Self, targ[t].op, targ[t].key)]
    /\ pc' = [pc EXCEPT ![t] = "cloned"]
    /\ node_sources' = {e \in node_sources : targ[t].op # "node_source"
                                             \/ ~KeyEq(e.key, targ[t].key)}
    /\ rel_sources' = {e \in rel_sources : targ[t].op # "relationship_source"
                                           \/ ~KeyEq(e.key, targ[t].key)}
    /\ UNCHANGED <<targ, tres, strong>>
    /\ SharedUntouched

\* self.node_sources.get(label) / self.rel_sources.get(rel_type)
ThreadGet(t) ==
    /\ pc[t] = "get"
    /\ found' = [found EXCEPT ![t] = Call(Self, targ[t].op, targ[t].key)]
    /\ pc' = [pc EXCEPT ![t] = "cloned"]
    /\ UNCHANGED <<targ, tres, strong, node_sources, rel_sources>>
    /\ SharedUntouched

\* .cloned(): the strong count is incremented atomically, the clone returned
ThreadCloned(t) ==
    /\ pc[t] = "cloned"
    /\ strong' = Cloned(strong, found[t])
    /\ tres' = [tres EXCEPT ![t] = found[t]]
    /\ targ' = [targ EXCEPT ![t].val = found[t]]
    /\ found' = [found EXCEPT ![t] = None]
    /\ pc' = [pc EXCEPT ![t] = "idle"]
    /\ UNCHANGED <<node_sources, rel_sources>>
    /\ SharedUntouched

NextConc ==
    \/ \E t \in Threads, name \in Keys : ThreadCall(t, "node_source", name)
    \/ \E t \in Threads, name \in Keys : ThreadCall(t, "relationship_source", name)
    \/ \E t \in Threads : ThreadGet(t)
    \/ \E t \in Threads : ThreadCloned(t)

SpecConc == InitConc /\ [][NextConc]_vars

(* ============================== properties ============================= *)
\* the handle the registration history says a name resolves to
Expected(ns, k) ==
    IF registered[ns][k] = <<>> THEN None ELSE Some(Last(registered[ns][k]))

Namespace(op) == IF op = "node_source" THEN "node" ELSE "rel"

\* the source lookup of a namespace on the catalog of the state
SourceOf(ns, k) ==
    IF ns = "node" THEN Call(Self, "node_source", k)
    ELSE Call(Self, "relationship_source", k)

\* the latest call was a source lookup in namespace ns
Asked(ns) == ret.op \in Overridden /\ Namespace(ret.op) = ns

\* C1: after new().with_node_source(L, H) node_source(L) is Some(H), whose
\* schema is the one H was built with, and node_source(L2) is None for every
\* other label L2; likewise for with_relationship_source.
C1_SingleRegistration ==
    \A ns \in Namespaces, L \in Keys, H \in Handles :
        (nregs = 1 /\ registered[ns][L] = <<H>>) =>
            /\ SourceOf(ns, L) = Some(H)
            /\ schema(sources[SourceOf(ns, L).val]) = built[H].arg
            /\ \A L2 \in Keys \ {L} : SourceOf(ns, L2) = None
            /\ Asked(ns) =>
                  ret.val = IF ret.key = L THEN Some(H) ELSE None

C1_Witness ==
    /\ nregs = 1
    /\ registered["node"][<<"a", " ">>] = <<2>>
    /\ ret = [op |-> "node_source", key |-> <<"a", " ">>, val |-> Some(2)]

\* C2: a name resolves to the handle of the most recent registration of
\* that name, never to an earlier one; no map holds two entries for one
\* key; registering a name again is possible whatever it is registered to.
C2_LastWriteWins ==
    /\ \A ns \in Namespaces, k \in Keys :
          registered[ns][k] # <<>> =>
              SourceOf(ns, k) = Some(Last(registered[ns][k]))
    /\ \A m \in {node_sources, rel_sources} :
          \A e1, e2 \in m : e1.key = e2.key => e1 = e2
    /\ (ret.op \in Overridden /\ registered[Namespace(ret.op)][ret.key] # <<>>)
          => ret.val = Some(Last(registered[Namespace(ret.op)][ret.key]))
    /\ nregs < MaxRegs =>
          \A k \in Keys, h \in Handles :
              /\ registered["node"][k] # <<>> => ENABLED WithNodeSource(k, h)
              /\ registered["rel"][k] # <<>> => ENABLED WithRelationshipSource(k, h)

C2_Witness ==
    /\ registered["node"][<<"a">>] = <<1, 2>>
    /\ ret = [op |-> "node_source", key |-> <<"a">>, val |-> Some(2)]

\* C3: a name registered as a node label only is not a relationship type,
\* a name registered as a relationship type only is not a node label, and
\* a name registered as both resolves in each namespace to its own handle.
C3_NamespacesIndependent ==
    \A k \in Keys :
        /\ registered["rel"][k] = <<>> => relationship_source(Self, k) = None
        /\ registered["node"][k] = <<>> => node_source(Self, k) = None
        /\ (registered["node"][k] # <<>> /\ registered["rel"][k] # <<>>) =>
              /\ node_source(Self, k) = Some(Last(registered["node"][k]))
              /\ relationship_source(Self, k) = Some(Last(registered["rel"][k]))
        /\ (Asked("rel") /\ ret.key = k /\ registered["rel"][k] = <<>>) =>
              ret.val = None
        /\ (Asked("node") /\ ret.key = k /\ registered["node"][k] = <<>>) =>
              ret.val = None

C3_Witness ==
    /\ registered["node"][<<"a">>] = <<1>>
    /\ registered["rel"][<<"a">>] = <<>>
    /\ registered["node"][<<"A">>] = <<2>>
    /\ registered["rel"][<<"A">>] = <<1>>
    /\ ret = [op |-> "relationship_source", key |-> <<"a">>, val |-> None]

\* C4: a catalog from new() or default() with no registration resolves
\* every label and every relationship type to None.
C4_EmptyCatalog ==
    /\ \A c \in {InMemoryCatalog_new, InMemoryCatalog_default}, k \in Keys :
          node_source(c, k) = None /\ relationship_source(c, k) = None
    /\ nregs = 0 =>
          /\ \A ns \in Namespaces, k \in Keys : SourceOf(ns, k) = None
          /\ ret.op \in Overridden => ret.val = None

C4_Witness ==
    /\ nregs = 0
    /\ ret = [op |-> "relationship_source", key |-> <<>>, val |-> None]

\* C5: get_node_mapping and get_relationship_mapping return None for every
\* name in every state, registered names included.
C5_MappingsAbsent ==
    /\ \A k \in Keys :
          /\ Call(Self, "get_node_mapping", k) = None
          /\ Call(Self, "get_relationship_mapping", k) = None
    /\ ret.op \in Ops \ Overridden => ret.val = None

C5_Witness ==
    /\ ret.op = "get_node_mapping"
    /\ node_source(Self, ret.key) = Some(2)
    /\ relationship_source(Self, ret.key) = Some(1)
    /\ ret.val = None

\* what a call returns single-threaded on the catalog as built
SingleThreaded(call) == atReg[call.op][call.key]

\* the threads holding a clone of the Arc of object h
Holders(h) == {t \in Threads : tres[t] = Some(h)}

\* C6: whatever the interleaving, every node_source / relationship_source
\* call of a thread reads and returns what the same call returns
\* single-threaded on the catalog as built; both maps keep resolving every
\* name as built, and the only shared data written, the strong counts,
\* count exactly the references held.
C6_ConcurrentReads ==
    /\ \A t \in Threads :
          /\ (pc[t] = "idle" /\ targ[t].op # "none") =>
                tres[t] = SingleThreaded(targ[t])
          /\ pc[t] = "cloned" => found[t] = SingleThreaded(targ[t])
    /\ AllResults(Self) = atReg
    /\ \A ns \in Namespaces, k \in Keys : SourceOf(ns, k) = Expected(ns, k)
    /\ \A h \in Handles :
          strong[h] = 1 + MapRefs(node_sources, rel_sources, h)
                        + Cardinality(Holders(h))

C6_Witness ==
    /\ nregs = 3
    /\ pc[1] = "cloned" /\ targ[1].op = "node_source" /\ found[1] = Some(2)
    /\ pc[2] = "idle" /\ targ[2] = [op |-> "node_source", key |-> targ[1].key,
                                    val |-> Some(2)]
    /\ tres[2] = Some(2)

\* C7: as long as no registration intervenes, every node_source,
\* relationship_source, get_node_mapping and get_relationship_mapping call
\* returns what it returned right after the latest registration, however
\* many calls with whatever keys were made since: no call changes what the
\* two maps resolve.
C7_ReadOnly ==
    /\ AllResults(Self) = atReg
    /\ ret.op \in Ops => ret.val = atReg[ret.op][ret.key]

C7_Witness ==
    /\ nregs = 2
    /\ ret = [op |-> "node_source", key |-> <<"A">>, val |-> Some(1)]
    /\ node_source(Self, <<"a">>) = Some(2)

\* C8: an object from SimpleTableSource::empty() has a schema of zero
\* columns, one from SimpleTableSource::new(S) has the schema S, and every
\* schema() call returns that schema, the one the first call returned.
C8_FixedSchema ==
    \A h \in DOMAIN sources :
        /\ built[h].ctor = "empty" => Len(schema(sources[h])) = 0
        /\ built[h].ctor = "new" => schema(sources[h]) = built[h].arg
        /\ lastSchema[h].some =>
              /\ firstSchema[h].some
              /\ lastSchema[h].val = firstSchema[h].val
              /\ lastSchema[h].val = built[h].arg

C8_Witness ==
    /\ Len(sources) = 2
    /\ built[1] = [ctor |-> "empty", arg |-> <<>>]
    /\ built[2] = [ctor |-> "new", arg |-> <<"id", "name">>]
    /\ lastSchema[1] = Some(<<>>)
    /\ lastSchema[2] = Some(<<"id", "name">>)

\* C9: in each namespace a name resolves to a handle exactly when a
\* registration used that very string as key (the empty string included);
\* any other name resolves to None, and a name registered with the
\* empty-schema handle resolves to that handle.
C9_ExactKey ==
    /\ \A ns \in Namespaces, k \in Keys :
          /\ SourceOf(ns, k).some <=> registered[ns][k] # <<>>
          /\ (registered[ns][k] # <<>> /\ Last(registered[ns][k]) = 1) =>
                /\ SourceOf(ns, k) = Some(1)
                /\ schema(sources[SourceOf(ns, k).val]) = Schema_empty
    /\ ret.op \in Overridden =>
          (ret.val.some <=> registered[Namespace(ret.op)][ret.key] # <<>>)

C9_Witness ==
    /\ registered["node"][<<>>] = <<1>>
    /\ registered["node"][<<"a">>] = <<2>>
    /\ registered["node"][<<"a", " ">>] = <<>>
    /\ registered["node"][<<"A">>] = <<>>
    /\ ret = [op |-> "node_source", key |-> <<"A">>, val |-> None]
    /\ node_source(Self, <<>>) = Some(1)

\* C10: with_node_source(L, H) leaves the association of every other label
\* and every association of a relationship type as it was, and
\* with_relationship_source(T, H) leaves that of every other relationship
\* type and of every label as it was, also when the handle it replaces is
\* shared with other keys.
C10_Frame ==
    [][/\ \A L \in Keys :
             registered'["node"][L] # registered["node"][L] =>
                /\ \A k \in Keys \ {L} : SourceOf("node", k)' = SourceOf("node", k)
                /\ \A k \in Keys : SourceOf("rel", k)' = SourceOf("rel", k)
                /\ rel_sources' = rel_sources
       /\ \A T \in Keys :
             registered'["rel"][T] # registered["rel"][T] =>
                /\ \A k \in Keys \ {T} : SourceOf("rel", k)' = SourceOf("rel", k)
                /\ \A k \in Keys : SourceOf("node", k)' = SourceOf("node", k)
                /\ node_sources' = node_sources]_vars

C10_Witness ==
    /\ registered["node"][<<"a">>] = <<1, 2>>
    /\ registered["node"][<<"A">>] = <<1>>
    /\ node_source(Self, <<"A">>) = Some(1)
    /\ node_source(Self, <<"a">>) = Some(2)
    /\ strong[1] = 2

\* While one catalog is built and queried, the strong count of an object
\* is the number of references held by its fixture, the maps and the caller.
StrongCounts ==
    \A h \in Handles :
        strong[h] = 1 + MapRefs(node_sources, rel_sources, h)
                      + (IF RetHeld = Some(h) THEN 1 ELSE 0)

====
